---- MODULE Spec2Model ----
(***************************************************************************)
(* Model of download_and_rewrite.py: the URL filter (is_blocked), the      *)
(* discovery walk (collect_urls_from_manifest), the path mapper            *)
(* (url_to_local_path), the fetcher (download_one, download_urls), the     *)
(* rewrite walk (rewrite_manifest) and the pipeline of main.               *)
(*                                                                         *)
(* A Python str is a tuple of one-character strings, so that prefix tests, *)
(* substring tests, parsing and percent-decoding are computed and not      *)
(* assumed.  A JSON value is a tagged record:                              *)
(*   [t |-> "null"], [t |-> "num", v |-> n], [t |-> "str", v |-> chars],   *)
(*   [t |-> "list", v |-> <<values>>],                                     *)
(*   [t |-> "dict", v |-> <<[k |-> key, v |-> value], ...>>]               *)
(* (a Python dict keeps insertion order, so a dict is a sequence of        *)
(* key/value pairs with distinct keys).                                    *)
(***************************************************************************)
EXTENDS Integers, Sequences, FiniteSets, TLC

VARIABLES
    u1, u2, p1, p2, mapPc,                      \* path mapper, two URLs side by side
    rwIn, rwM, changed, removed, rwPc,          \* rewrite_manifest, one phase at a time
    manifest, skip_existing, mainPc, urls, todo, fs, task, future_to_url,
    results, total_bytes, failed, skipUrl, rewritten, missing, hist, succeeded, fs0
                                                \* main: discovery, fetch, rewrite, verify

mapVars == <<u1, u2, p1, p2, mapPc>>
rwVars == <<rwIn, rwM, changed, removed, rwPc>>
mainVars == <<manifest, skip_existing, mainPc, urls, todo, fs, task, future_to_url,
              results, total_bytes, failed, skipUrl, rewritten, missing, hist, succeeded, fs0>>
vars == <<mapVars, rwVars, mainVars>>

(***************************************************************************)
(* Strings                                                                 *)
(***************************************************************************)
Empty == << >>

StartsWith(s, p) == Len(s) >= Len(p) /\ SubSeq(s, 1, Len(p)) = p

EndsWith(s, p) == Len(s) >= Len(p) /\ SubSeq(s, Len(s) - Len(p) + 1, Len(s)) = p

\* Python's `sub in s`
Contains(s, sub) ==
    \E i \in 1..(Len(s) - Len(sub) + 1) : SubSeq(s, i, i + Len(sub) - 1) = sub

\* Index of the first element of s, at or after position from, that is in set cs; 0 when none.
FindFirst(s, cs, from) ==
    LET hits == {i \in from..Len(s) : s[i] \in cs}
    IN  IF hits = {} THEN 0 ELSE CHOOSE i \in hits : \A j \in hits : i <= j

\* Index of the last element of s that is in set cs; 0 when none (str.rfind, 1-based).
FindLast(s, cs) ==
    LET hits == {i \in 1..Len(s) : s[i] \in cs}
    IN  IF hits = {} THEN 0 ELSE CHOOSE i \in hits : \A j \in hits : i >= j

\* s[from:] with a 1-based first index
Tail_(s, from) == SubSeq(s, from, Len(s))

\* str.lstrip("/")
RECURSIVE LStripSlash(_)
LStripSlash(s) == IF s # Empty /\ s[1] = "/" THEN LStripSlash(Tail(s)) ELSE s

\* str.split("/")
RECURSIVE SplitSlash(_)
SplitSlash(s) ==
    LET i == FindFirst(s, {"/"}, 1)
    IN  IF i = 0 THEN <<s>> ELSE <<SubSeq(s, 1, i - 1)>> \o SplitSlash(Tail_(s, i + 1))

\* "/".join(parts)
RECURSIVE JoinSlash(_)
JoinSlash(parts) ==
    IF parts = << >> THEN Empty
    ELSE IF Len(parts) = 1 THEN parts[1]
    ELSE parts[1] \o <<"/">> \o JoinSlash(Tail(parts))

HTTP == <<"h", "t", "t", "p", ":", "/", "/">>
HTTPS == <<"h", "t", "t", "p", "s", ":", "/", "/">>

\* s.startswith("http://") or s.startswith("https://")
IsHttp(s) == StartsWith(s, HTTP) \/ StartsWith(s, HTTPS)

(***************************************************************************)
(* URL filter                                                              *)
(***************************************************************************)
ANALYTICS_BLOCKLIST == <<
    <<"g", "o", "o", "g", "l", "e", "t", "a", "g", "m", "a", "n", "a", "g", "e", "r", ".", "c", "o", "m">>,
    <<"g", "o", "o", "g", "l", "e", "-", "a", "n", "a", "l", "y", "t", "i", "c", "s", ".", "c", "o", "m">>,
    <<"c", "o", "n", "n", "e", "c", "t", ".", "f", "a", "c", "e", "b", "o", "o", "k", ".", "n", "e", "t">>,
    <<"f", "i", "r", "e", "b", "a", "s", "e", "i", "n", "s", "t", "a", "l", "l", "a", "t", "i", "o", "n", "s", ".", "g", "o", "o", "g", "l", "e", "a", "p", "i", "s", ".", "c", "o", "m">>,
    <<"f", "i", "r", "e", "b", "a", "s", "e", ".", "g", "o", "o", "g", "l", "e", "a", "p", "i", "s", ".", "c", "o", "m">>,
    <<"s", "t", "o", "r", "a", "g", "e", ".", "g", "o", "o", "g", "l", "e", "a", "p", "i", "s", ".", "c", "o", "m">>,
    <<"a", "n", "a", "l", "y", "t", "i", "c", "s", ".">> >>

\* is_blocked on a str: the empty string is not blocked, any other is blocked when it
\* contains a blocklist entry.
is_blocked(url) ==
    /\ url # Empty
    /\ \E i \in 1..Len(ANALYTICS_BLOCKLIST) : Contains(url, ANALYTICS_BLOCKLIST[i])

(***************************************************************************)
(* urllib.parse.urlparse and unquote, os.path.splitext, pathlib.Path       *)
(***************************************************************************)
\* s[:i-1] for a 1-based position i of a separator, all of s when there is none (i = 0)
Before(s, i) == IF i = 0 THEN s ELSE SubSeq(s, 1, i - 1)

\* s[i+1:] for a 1-based position i of a separator, empty when there is none (i = 0)
After(s, i) == IF i = 0 THEN Empty ELSE Tail_(s, i + 1)

\* urlparse's _splitparams: the parameters start at the first ";" of the last path segment
split_params(scheme, netloc, rest, query, fragment, sl) ==
    [scheme |-> scheme, netloc |-> netloc,
     path |-> Before(rest, FindFirst(rest, {";"}, IF sl = 0 THEN 1 ELSE sl)),
     params |-> After(rest, FindFirst(rest, {";"}, IF sl = 0 THEN 1 ELSE sl)),
     query |-> query, fragment |-> fragment]

\* urlsplit: the query starts at the first "?" of what the fragment left
split_query(scheme, netloc, rest, fragment, q) ==
    split_params(scheme, netloc, Before(rest, q), After(rest, q), fragment,
                 FindLast(Before(rest, q), {"/"}))

\* urlsplit: the fragment starts at the first "#" after the netloc
split_fragment(scheme, netloc, rest, h) ==
    split_query(scheme, netloc, Before(rest, h), After(rest, h),
                FindFirst(Before(rest, h), {"?"}, 1))

\* urlsplit's _splitnetloc: after "//", the netloc runs to the first of "/", "?", "#"
\* (position d of rest, 0 when none)
split_netloc(scheme, rest, d) ==
    IF StartsWith(rest, <<"/", "/">>)
    THEN split_fragment(scheme,
                        IF d = 0 THEN Tail_(rest, 3) ELSE SubSeq(rest, 3, d - 1),
                        IF d = 0 THEN Empty ELSE Tail_(rest, d),
                        IF d = 0 THEN 0 ELSE FindFirst(Tail_(rest, d), {"#"}, 1))
    ELSE split_fragment(scheme, Empty, rest, FindFirst(rest, {"#"}, 1))

\* urlsplit: the scheme ends at the first ":" (position c)
split_scheme(url, c) ==
    split_netloc(SubSeq(url, 1, c - 1), Tail_(url, c + 1),
                 FindFirst(Tail_(url, c + 1), {"/", "?", "#"}, 3))

\* urllib.parse.urlparse: urlsplit followed by the split of the parameters of the last
\* path segment.
urlparse(url) == split_scheme(url, FindFirst(url, {":"}, 1))

HexDigits == <<"0", "1", "2", "3", "4", "5", "6", "7", "8", "9", "a", "b", "c", "d", "e", "f">>
HexUpper == <<"0", "1", "2", "3", "4", "5", "6", "7", "8", "9", "A", "B", "C", "D", "E", "F">>

IsHex(c) == \E i \in 1..16 : HexDigits[i] = c \/ HexUpper[i] = c

HexVal(c) == (CHOOSE i \in 1..16 : HexDigits[i] = c \/ HexUpper[i] = c) - 1

\* The printable ASCII characters, code 32 first (the double quote, the backslash and
\* the backtick by name).
Printable == <<
    " ", "!", "dquote", "#", "$", "%", "&", "'", "(", ")", "*", "+", ",", "-", ".", "/",
    "0", "1", "2", "3", "4", "5", "6", "7", "8", "9", ":", ";", "<", "=", ">", "?",
    "@", "A", "B", "C", "D", "E", "F", "G", "H", "I", "J", "K", "L", "M", "N", "O",
    "P", "Q", "R", "S", "T", "U", "V", "W", "X", "Y", "Z", "[", "backslash", "]", "^", "_",
    "backtick", "a", "b", "c", "d", "e", "f", "g", "h", "i", "j", "k", "l", "m", "n", "o",
    "p", "q", "r", "s", "t", "u", "v", "w", "x", "y", "z", "{", "|", "}", "~" >>

\* The character a decoded byte stands for: itself when printable ASCII, a control
\* character (named "ctl") below, the replacement character (named "ufffd") for a
\* byte that is no UTF-8 text on its own.
Chr(n) == IF n >= 32 /\ n <= 126 THEN Printable[n - 31] ELSE IF n < 128 THEN "ctl" ELSE "ufffd"

\* urllib.parse.unquote: every %XX with two hex digits is replaced by its byte,
\* anything else is kept.
RECURSIVE unquote(_)
unquote(s) ==
    IF s = Empty THEN Empty
    ELSE IF s[1] = "%" /\ Len(s) >= 3 /\ IsHex(s[2]) /\ IsHex(s[3])
         THEN <<Chr(16 * HexVal(s[2]) + HexVal(s[3]))>> \o unquote(Tail_(s, 4))
         ELSE <<s[1]>> \o unquote(Tail(s))

\* os.path.splitext (posixpath) with the positions of the last "/" and the last ".":
\* the extension starts at the last dot of the last component, unless only dots
\* precede it in that component.
splitext_at(p, sepIndex, dotIndex) ==
    IF dotIndex > sepIndex /\ \E i \in (sepIndex + 1)..(dotIndex - 1) : p[i] # "."
    THEN [base |-> SubSeq(p, 1, dotIndex - 1), ext |-> Tail_(p, dotIndex)]
    ELSE [base |-> p, ext |-> Empty]

splitext(p) == splitext_at(p, FindLast(p, {"/"}), FindLast(p, {"."}))

\* The components pathlib keeps of a path string: empty and "." components are dropped.
PathParts(s) == SelectSeq(SplitSlash(s), LAMBDA c : c # Empty /\ c # <<".">>)

\* Path(s).as_posix() for s with `lead` leading slashes: the root ("//" for exactly
\* two leading slashes, "/" for any other number but none), the kept components joined
\* by "/", "." when nothing is left.
as_posix_of(lead, body) ==
    IF lead = 0 THEN (IF body = Empty THEN <<".">> ELSE body)
    ELSE IF lead = 2 THEN <<"/", "/">> \o body
    ELSE <<"/">> \o body

as_posix(s) == as_posix_of(Len(s) - Len(LStripSlash(s)), JoinSlash(PathParts(s)))

\* hashlib.sha1(query.encode("utf-8")).hexdigest()[:8], tabulated on the query
\* strings the model uses (values computed with hashlib).
sha1_hex8(q) ==
    CASE q = <<"b", "e", "o">> -> <<"2", "9", "5", "d", "4", "0", "7", "e">>
      [] q = <<"e", "w", "p", "k">> -> <<"2", "9", "5", "d", "4", "0", "7", "e">>
      [] q = <<"x">> -> <<"1", "1", "f", "6", "a", "d", "8", "e">>
      [] q = <<"x", "=", "1">> -> <<"7", "c", "a", "f", "6", "0", "5", "6">>

INDEX_HTML == <<"i", "n", "d", "e", "x", ".", "h", "t", "m", "l">>
DOT_HTML == <<".", "h", "t", "m", "l">>
Q_MARK == <<"_", "_", "q", "_">>

(***************************************************************************)
(* Path mapper: url_to_local_path                                          *)
(***************************************************************************)
\* "if query present, append short hash to filename", on (base, ext) of the path
splice_query(se, query) ==
    as_posix(se.base) \o Q_MARK \o sha1_hex8(query)
        \o (IF se.ext = Empty THEN DOT_HTML ELSE se.ext)

\* local_rel that forgets the query
local_rel_ignores_query(path, query) == path

\* local_rel from the path with its default filename
local_rel(path, query) == IF query # Empty THEN splice_query(splitext(path), query) ELSE path

\* index.html appended to a path ending in "/"; "/index.html" for an empty path
default_index(path) ==
    IF EndsWith(path, <<"/">>) THEN path \o INDEX_HTML
    ELSE IF path = Empty THEN <<"/">> \o INDEX_HTML
    ELSE path

\* local_path, as the components of out_root / host / local_rel_norm below out_root
\* (pathlib drops empty and "." components when joining), and manifest_href
map_host_rel(host, local_rel_norm) ==
    [local |-> PathParts(host) \o PathParts(local_rel_norm),
     href |-> <<"/">> \o JoinSlash(<<host>> \o SplitSlash(local_rel_norm))]

map_parsed(p) ==
    map_host_rel(p.netloc,
                 LStripSlash(local_rel(default_index(unquote(IF p.path = Empty THEN <<"/">>
                                                                ELSE p.path)),
                                       p.query)))

\* url_to_local_path(url, out_root): (local_path, manifest_href)
url_to_local_path(url) == map_parsed(urlparse(url))

(***************************************************************************)
(* JSON values                                                             *)
(***************************************************************************)
\* Python's None, which is also what json.load gives for null.
None == [t |-> "null"]

Num(n) == [t |-> "num", v |-> n]
Str(s) == [t |-> "str", v |-> s]
List(xs) == [t |-> "list", v |-> xs]
Dict(kvs) == [t |-> "dict", v |-> kvs]
KV(k, x) == [k |-> k, v |-> x]

\* isinstance(x, str) and (x.startswith("http://") or x.startswith("https://"))
IsHttpStr(x) == x.t = "str" /\ IsHttp(x.v)

\* Position of key k among the pairs of dict d; 0 when d has no such key.
DictIndex(d, k) ==
    LET hits == {i \in 1..Len(d.v) : d.v[i].k = k}
    IN  IF hits = {} THEN 0 ELSE CHOOSE i \in hits : TRUE

\* k in d
DictHas(d, k) == DictIndex(d, k) # 0

\* d.get(k)
DictGet(d, k) == IF DictHas(d, k) THEN d.v[DictIndex(d, k)].v ELSE None

\* d[k] = x: in place when the key exists, appended otherwise
DictSet(d, k, x) ==
    IF DictHas(d, k)
    THEN Dict([i \in 1..Len(d.v) |-> IF d.v[i].k = k THEN KV(k, x) ELSE d.v[i]])
    ELSE Dict(Append(d.v, KV(k, x)))

\* d.pop(k, None)
DictPop(d, k) == Dict(SelectSeq(d.v, LAMBDA kv : kv.k # k))

\* The elements a `for` loop visits in a recognized field: those of a list, none of
\* a missing or null field.
ItemsOf(x) == IF x.t = "list" THEN x.v ELSE << >>

(***************************************************************************)
(* Discovery: collect_urls_from_manifest                                   *)
(***************************************************************************)
\* add_if_http: the set s adds to urls
add_if_http(s) == IF IsHttpStr(s) /\ ~is_blocked(s.v) THEN {s.v} ELSE {}

\* The structural pass over one recognized list field.
collect_key(m, key) ==
    UNION {LET item == ItemsOf(DictGet(m, key))[i]
           IN  IF item.t = "dict" THEN add_if_http(DictGet(item, "href"))
               ELSE IF item.t = "str" THEN add_if_http(item)
               ELSE {} : i \in 1..Len(ItemsOf(DictGet(m, key)))}

\* metadata.identifier
collect_meta(m) ==
    LET meta == IF DictHas(m, "metadata") THEN DictGet(m, "metadata") ELSE Dict(<< >>)
    IN  IF meta.t = "dict" THEN add_if_http(DictGet(meta, "identifier")) ELSE {}

\* deep: every string under o, at any depth, that starts with http:// or https://
RECURSIVE deep(_)
deep(o) ==
    IF o.t = "dict" THEN UNION {deep(o.v[i].v) : i \in 1..Len(o.v)}
    ELSE IF o.t = "list" THEN UNION {deep(o.v[i]) : i \in 1..Len(o.v)}
    ELSE IF IsHttpStr(o) THEN add_if_http(o)
    ELSE {}

collect_urls_from_manifest(m) ==
    collect_key(m, "links") \cup collect_key(m, "images") \cup collect_key(m, "readingOrder")
        \cup collect_key(m, "resources") \cup collect_meta(m) \cup deep(m)

(***************************************************************************)
(* Rewrite: rewrite_manifest                                               *)
(*                                                                         *)
(* The walk threads an accumulator acc through its loops; acc.changed and  *)
(* acc.removed are the two lists of rewrite_manifest, acc.out the elements *)
(* of the container being rebuilt.                                         *)
(***************************************************************************)
\* The not-blocked branch of rewrite_string, with (local_path, manifest_href) = mp
rewrite_to(s, mp, acc) ==
    [new |-> Str(mp.href),
     changed |-> Append(acc.changed, [orig |-> s.v, href |-> mp.href, local |-> mp.local]),
     removed |-> acc.removed]

\* rewrite_string: the value returned, and changed and removed after the call.
rewrite_string(s, acc) ==
    IF IsHttpStr(s)
    THEN IF is_blocked(s.v)
         THEN [new |-> None, changed |-> acc.changed, removed |-> Append(acc.removed, s.v)]
         ELSE rewrite_to(s, url_to_local_path(s.v), acc)
    ELSE [new |-> s, changed |-> acc.changed, removed |-> acc.removed]

\* The loop over the elements of links, images or readingOrder.
RECURSIVE known_items(_, _)
known_items(items, acc) ==
    IF items = << >> THEN acc
    ELSE LET it == Head(items)
         IN  IF it.t = "dict" /\ DictHas(it, "href")
             THEN LET r == rewrite_string(DictGet(it, "href"), acc)
                      it2 == IF r.new = None THEN DictPop(it, "href")
                             ELSE DictSet(it, "href", r.new)
                  IN  known_items(Tail(items), [out |-> Append(acc.out, it2),
                                                changed |-> r.changed,
                                                removed |-> r.removed])
             ELSE known_items(Tail(items), [acc EXCEPT !.out = Append(@, it)])

\* One recognized key of the first loop: the list is rewritten in place.
known_key(st, key) ==
    IF DictGet(st.m, key).t = "list"
    THEN LET r == known_items(DictGet(st.m, key).v,
                              [out |-> << >>, changed |-> st.changed, removed |-> st.removed])
         IN  [m |-> DictSet(st.m, key, List(r.out)), changed |-> r.changed,
              removed |-> r.removed]
    ELSE st

\* "rewrite known arrays"
rewrite_known_arrays(st) == known_key(known_key(known_key(st, "links"), "images"), "readingOrder")

\* The loop that builds new_resources.
RECURSIVE resource_items(_, _)
resource_items(items, acc) ==
    IF items = << >> THEN acc
    ELSE LET r == Head(items)
             href == DictGet(r, "href")
         IN  IF r.t = "dict" /\ href.t = "str"
             THEN IF is_blocked(href.v)
                  THEN resource_items(Tail(items), [acc EXCEPT !.removed = Append(@, href.v)])
                  ELSE LET w == rewrite_string(href, acc)
                       IN  IF w.new = None
                           THEN resource_items(Tail(items),
                                    [acc EXCEPT !.changed = w.changed, !.removed = w.removed])
                           ELSE resource_items(Tail(items),
                                    [out |-> Append(acc.out, DictSet(r, "href", w.new)),
                                     changed |-> w.changed, removed |-> w.removed])
             ELSE resource_items(Tail(items), [acc EXCEPT !.out = Append(@, r)])

\* "resources": manifest["resources"] = new_resources, whether or not the key was there
rewrite_resources(st) ==
    LET r == resource_items(ItemsOf(DictGet(st.m, "resources")),
                            [out |-> << >>, changed |-> st.changed, removed |-> st.removed])
    IN  [m |-> DictSet(st.m, "resources", List(r.out)), changed |-> r.changed,
         removed |-> r.removed]

\* "metadata.identifier"
rewrite_metadata(st) ==
    LET meta == DictGet(st.m, "metadata")
        ident == DictGet(meta, "identifier")
        w == rewrite_string(ident, st)
    IN  IF meta.t = "dict" /\ ident.t = "str"
        THEN [m |-> DictSet(st.m, "metadata",
                            IF w.new = None THEN DictPop(meta, "identifier")
                            ELSE DictSet(meta, "identifier", w.new)),
              changed |-> w.changed, removed |-> w.removed]
        ELSE st

\* deep_replace: o after the call (acc.out of the result), with changed and removed
RECURSIVE deep_replace(_, _)
RECURSIVE deep_dict(_, _, _)
RECURSIVE deep_list(_, _)

\* The loop over list(o.items()) of a dict o: kvs are the pairs still to visit, d the
\* dict as mutated so far.
deep_dict(kvs, d, acc) ==
    IF kvs = << >> THEN [acc EXCEPT !.out = d]
    ELSE LET k == Head(kvs).k
             v == Head(kvs).v
         IN  IF v.t = "str"
             THEN IF IsHttp(v.v)
                  THEN LET w == rewrite_string(v, acc)
                       IN  deep_dict(Tail(kvs),
                                     IF w.new = None THEN DictPop(d, k) ELSE DictSet(d, k, w.new),
                                     [acc EXCEPT !.changed = w.changed, !.removed = w.removed])
                  ELSE deep_dict(Tail(kvs), d, acc)
             ELSE LET w == deep_replace(v, acc)
                  IN  deep_dict(Tail(kvs), DictSet(d, k, w.out),
                                [acc EXCEPT !.changed = w.changed, !.removed = w.removed])

\* The loop over enumerate(list(o)) of a list o; acc.out collects o[idx] after each step.
deep_list(items, acc) ==
    IF items = << >> THEN acc
    ELSE LET item == Head(items)
         IN  IF IsHttpStr(item)
             THEN LET w == rewrite_string(item, acc)
                  IN  deep_list(Tail(items), [out |-> Append(acc.out, w.new),
                                              changed |-> w.changed, removed |-> w.removed])
             ELSE LET w == deep_replace(item, [acc EXCEPT !.out = << >>])
                  IN  deep_list(Tail(items), [out |-> Append(acc.out, w.out),
                                              changed |-> w.changed, removed |-> w.removed])

\* deep_replace without its last line: the None written over a blocked list element stays
deep_replace_keeps_none(o, acc) ==
    IF o.t = "dict" THEN deep_dict(o.v, o, acc)
    ELSE IF o.t = "list" THEN [deep_list(o.v, [acc EXCEPT !.out = << >>]) EXCEPT !.out = List(@)]
    ELSE [acc EXCEPT !.out = o]

deep_replace(o, acc) ==
    IF o.t = "dict" THEN deep_dict(o.v, o, acc)
    ELSE IF o.t = "list"
    THEN LET w == deep_list(o.v, [acc EXCEPT !.out = << >>])
         IN  [w EXCEPT !.out = List(SelectSeq(w.out, LAMBDA x : x # None))]
    ELSE [acc EXCEPT !.out = o]

\* rewrite_manifest without its deep pass
rewrite_deep_skipped(st) == st

\* "deep replace of any other absolute urls"
rewrite_deep(st) ==
    LET w == deep_replace(st.m, [out |-> << >>, changed |-> st.changed, removed |-> st.removed])
    IN  [m |-> w.out, changed |-> w.changed, removed |-> w.removed]

\* rewrite_manifest(manifest, out_root): (manifest, changed, removed)
rewrite_manifest(m) ==
    rewrite_deep(rewrite_metadata(rewrite_resources(rewrite_known_arrays(
        [m |-> m, changed |-> << >>, removed |-> << >>]))))

(***************************************************************************)
(* The path mapper on two URLs (SpecMap)                                   *)
(***************************************************************************)
PoolSchemes == {HTTP, HTTPS}
PoolHosts == {<<"h">>}
PoolPaths == {Empty, <<"/">>, <<"/", "a">>, <<"/", "a", "/">>,
              <<"/", "a", "/">> \o INDEX_HTML, <<"/", "%", "6", "1">>,
              <<"/", "a", ".", "j", "s">>, <<"/", "a", ";", "p">>}
PoolQueries == {Empty, <<"?">>, <<"?", "b", "e", "o">>, <<"?", "e", "w", "p", "k">>, <<"?", "x">>}
PoolFragments == {Empty, <<"#", "f">>}

\* The URLs the path mapper is applied to: every scheme, host, path, query and
\* fragment of the pools put together.
UrlPool ==
    {s \o h \o p \o q \o f : s \in PoolSchemes, h \in PoolHosts, p \in PoolPaths,
                             q \in PoolQueries, f \in PoolFragments}

\* url_to_local_path applied to both URLs under the same out_root.
MapBoth ==
    /\ mapPc = "start"
    /\ p1' = url_to_local_path(u1)
    /\ p2' = url_to_local_path(u2)
    /\ mapPc' = "done"
    /\ UNCHANGED <<u1, u2, rwVars, mainVars>>

(***************************************************************************)
(* rewrite_manifest on a pool of manifests (SpecRewrite)                   *)
(***************************************************************************)
MaxItems == 2

G1 == HTTPS \o <<"g", ".", "c", "o", "/", "a">>
G2 == HTTP \o <<"h", "/", "a", "?", "x", "=", "1">>
B1 == HTTP \o <<"a", "n", "a", "l", "y", "t", "i", "c", "s", ".", "x", "/", "t">>
REL == <<"a", ".", "h", "t", "m", "l">>
RELB == <<"a", "n", "a", "l", "y", "t", "i", "c", "s", ".", "j", "s">>

\* Every list of at most n elements of S
Lists(S, n) == UNION {[1..k -> S] : k \in 0..n}

\* Elements of links: a null element, a bare URL string, and link objects whose href
\* is in scope, blocked, or null.
LinkItems == {None, Str(G2), Dict(<<KV("href", Str(G1))>>), Dict(<<KV("href", Str(B1))>>),
              Dict(<<KV("href", None), KV("rel", Str(REL))>>)}

\* Elements of resources: hrefs in scope, blocked (with another URL beside it),
\* relative with a denylisted substring, not a string; and a bare blocked URL string.
ResItems == {Dict(<<KV("href", Str(G1)), KV("type", Str(REL))>>),
             Dict(<<KV("href", Str(B1)), KV("alt", Str(G2))>>),
             Dict(<<KV("href", Str(RELB))>>),
             Dict(<<KV("href", Num(1))>>),
             Str(B1)}

\* The links field: missing, or a list of at most n elements
LinkOpts(n) == {<< >>} \cup {<<KV("links", List(l))>> : l \in Lists(LinkItems, n)}

\* The resources field: missing, or a list of at most n elements
ResOpts(n) == {<< >>} \cup {<<KV("resources", List(l))>> : l \in Lists(ResItems, n)}

\* The other fields of a manifest: images, readingOrder, metadata and unrecognized
\* fields with URLs at several depths.
OtherOpts == {
    << >>,
    <<KV("metadata", Dict(<<KV("title", Str(REL)), KV("identifier", Str(G1))>>))>>,
    <<KV("metadata", Dict(<<KV("identifier", Str(B1))>>))>>,
    <<KV("metadata", Dict(<<KV("identifier", None)>>))>>,
    <<KV("images", List(<<Dict(<<KV("href", Str(G2))>>)>>)),
      KV("readingOrder", List(<<Dict(<<KV("href", Str(B1))>>), Str(G1)>>))>>,
    <<KV("cover", Str(G1)), KV("tracker", Str(B1)), KV("n", Num(1))>>,
    <<KV("extra", Dict(<<KV("a", List(<<List(<<Str(B1), None, Str(G2)>>), Str(REL)>>)),
                         KV("u", Str(B1))>>))>>,
    <<KV("extra", List(<<Dict(<<KV("href", Str(B1)), KV("src", Str(G1))>>), None>>))>> }

\* The manifests rewrite_manifest is applied to: links and resources of up to MaxItems
\* elements alone, and shorter ones together with each of the other fields.
Manifests ==
    {Dict(l \o r) : l \in LinkOpts(MaxItems), r \in ResOpts(MaxItems)}
        \cup {Dict(l \o r \o o) : l \in LinkOpts(MaxItems - 1), r \in ResOpts(MaxItems - 1),
                                  o \in OtherOpts}

RwState == [m |-> rwM, changed |-> changed, removed |-> removed]

RwStep(st, next) ==
    /\ rwM' = st.m
    /\ changed' = st.changed
    /\ removed' = st.removed
    /\ rwPc' = next
    /\ UNCHANGED <<rwIn, mapVars, mainVars>>

RwKnownArrays == rwPc = "known" /\ RwStep(rewrite_known_arrays(RwState), "resources")

RwResources == rwPc = "resources" /\ RwStep(rewrite_resources(RwState), "metadata")

RwMetadata == rwPc = "metadata" /\ RwStep(rewrite_metadata(RwState), "deep")

RwDeep == rwPc = "deep" /\ RwStep(rewrite_deep(RwState), "done")

(***************************************************************************)
(* Specifications                                                          *)
(***************************************************************************)
MapNext == MapBoth

\* Two URLs of the pool, nothing mapped yet; the other parts idle.
InitMap ==
    /\ u1 \in UrlPool /\ u2 \in UrlPool /\ p1 = None /\ p2 = None /\ mapPc = "start"
    /\ rwIn = None /\ rwM = None /\ changed = << >> /\ removed = << >> /\ rwPc = "idle"
    /\ manifest = None /\ skip_existing = FALSE /\ mainPc = "idle"
    /\ urls = {} /\ todo = {} /\ fs = << >> /\ task = << >> /\ future_to_url = {}
    /\ results = << >> /\ total_bytes = 0 /\ failed = << >> /\ skipUrl = None
    /\ rewritten = None /\ missing = << >> /\ hist = {} /\ succeeded = {} /\ fs0 = << >>

SpecMap == InitMap /\ [][MapNext]_vars

RwNext == RwKnownArrays \/ RwResources \/ RwMetadata \/ RwDeep

\* A manifest of the pool, as rewrite_manifest receives it; the other parts idle.
InitRewrite ==
    /\ rwIn \in Manifests /\ rwM = rwIn /\ changed = << >> /\ removed = << >>
    /\ rwPc = "known"
    /\ u1 = None /\ u2 = None /\ p1 = None /\ p2 = None /\ mapPc = "idle"
    /\ manifest = None /\ skip_existing = FALSE /\ mainPc = "idle"
    /\ urls = {} /\ todo = {} /\ fs = << >> /\ task = << >> /\ future_to_url = {}
    /\ results = << >> /\ total_bytes = 0 /\ failed = << >> /\ skipUrl = None
    /\ rewritten = None /\ missing = << >> /\ hist = {} /\ succeeded = {} /\ fs0 = << >>

SpecRewrite == InitRewrite /\ [][RwNext]_vars

(***************************************************************************)
(* Claims about rewrite_manifest (SpecRewrite)                             *)
(***************************************************************************)
ChangedSet == {changed[i].orig : i \in 1..Len(changed)}
RemovedSet == {removed[i] : i \in 1..Len(removed)}

RECURSIVE SumSeq(_)
SumSeq(ns) == IF ns = << >> THEN 0 ELSE Head(ns) + SumSeq(Tail(ns))

\* Every string under o, at any depth, that starts with http:// or https://
RECURSIVE HttpStrings(_)
HttpStrings(o) ==
    IF o.t = "dict" THEN UNION {HttpStrings(o.v[i].v) : i \in 1..Len(o.v)}
    ELSE IF o.t = "list" THEN UNION {HttpStrings(o.v[i]) : i \in 1..Len(o.v)}
    ELSE IF IsHttpStr(o) THEN {o.v}
    ELSE {}

\* Every other string under o
RECURSIVE OtherStrings(_)
OtherStrings(o) ==
    IF o.t = "dict" THEN UNION {OtherStrings(o.v[i].v) : i \in 1..Len(o.v)}
    ELSE IF o.t = "list" THEN UNION {OtherStrings(o.v[i]) : i \in 1..Len(o.v)}
    ELSE IF o.t = "str" /\ ~IsHttp(o.v) THEN {o.v}
    ELSE {}

\* The number of nulls under o: null list elements and null object values
RECURSIVE Nulls(_)
Nulls(o) ==
    IF o.t = "dict" THEN SumSeq([i \in 1..Len(o.v) |-> Nulls(o.v[i].v)])
    ELSE IF o.t = "list" THEN SumSeq([i \in 1..Len(o.v) |-> Nulls(o.v[i])])
    ELSE IF o = None THEN 1
    ELSE 0

TopKeys(m) == {m.v[i].k : i \in 1..Len(m.v)}

\* A resources element the rewrite drops: an object whose href is a blocked string
IsDroppedResource(r) ==
    r.t = "dict" /\ DictGet(r, "href").t = "str" /\ is_blocked(DictGet(r, "href").v)

\* m without the resources elements the rewrite drops
WithoutDroppedResources(m) ==
    IF DictHas(m, "resources")
    THEN DictSet(m, "resources",
                 List(SelectSeq(ItemsOf(DictGet(m, "resources")),
                                LAMBDA r : ~IsDroppedResource(r))))
    ELSE m

(* C1, as stated: when rewrite_manifest has returned, the original URLs of changed
   together with the URLs of removed are exactly collect_urls_from_manifest of the
   manifest before the rewrite. *)
C1_ChangedAndRemovedAreDiscovery ==
    rwPc = "done" => ChangedSet \cup RemovedSet = collect_urls_from_manifest(rwIn)

(* C1, amended: when rewrite_manifest has returned, the original URLs of changed are
   exactly the URLs discovery finds in the manifest once the resources elements with a
   blocked href are left out, all of them URLs discovery finds in the whole manifest;
   removed holds only blocked strings, none of which discovery returns. *)
C1_ChangedIsKeptDiscovery ==
    rwPc = "done" =>
        /\ ChangedSet = collect_urls_from_manifest(WithoutDroppedResources(rwIn))
        /\ ChangedSet \subseteq collect_urls_from_manifest(rwIn)
        /\ \A r \in RemovedSet : is_blocked(r) /\ r \notin collect_urls_from_manifest(rwIn)

\* The rewrite has returned, has rewritten and removed something, and a discovered URL
\* sat only in a dropped resources element.
C1_Witness ==
    /\ rwPc = "done"
    /\ ChangedSet # {}
    /\ RemovedSet # {}
    /\ ~(collect_urls_from_manifest(rwIn) \subseteq ChangedSet)

(* C2: when rewrite_manifest has returned, no string at any depth of the manifest starts
   with http:// or https://, and no null stands where a blocked URL was: the manifest
   holds no more nulls than before. *)
C2_NoAbsoluteUrlLeft ==
    rwPc = "done" => HttpStrings(rwM) = {} /\ Nulls(rwM) <= Nulls(rwIn)

\* The rewrite has returned on a manifest holding a blocked URL in a list next to a
\* null, and an in-scope URL.
C2_Witness ==
    /\ rwPc = "done"
    /\ DictHas(rwIn, "extra")
    /\ DictGet(rwIn, "extra").t = "dict"
    /\ DictGet(DictGet(rwIn, "extra"), "a") = List(<<List(<<Str(B1), None, Str(G2)>>), Str(REL)>>)
    /\ G1 \in HttpStrings(rwIn)
    /\ HttpStrings(rwM) = {}

(* C7, as stated: when rewrite_manifest has returned, the manifest has the top-level keys
   it had, as many nulls (null list elements, null href values) as it had, and every
   string it had that does not start with http:// or https:// (relative hrefs of
   resources with a denylisted substring among them). *)
C7_OnlyUrlStringsChange ==
    rwPc = "done" =>
        /\ TopKeys(rwM) = TopKeys(rwIn)
        /\ Nulls(rwM) = Nulls(rwIn)
        /\ OtherStrings(rwIn) \subseteq OtherStrings(rwM)

(***************************************************************************)
(* Claims about url_to_local_path (SpecMap)                                *)
(***************************************************************************)
\* u1 and u2 have the same scheme, host, path, parameters and fragment, and their
\* query strings differ.
DifferOnlyInQuery ==
    /\ urlparse(u1).query # urlparse(u2).query
    /\ [urlparse(u1) EXCEPT !.query = Empty] = [urlparse(u2) EXCEPT !.query = Empty]

(* C8, as stated: two URLs with the same scheme, host and path whose query strings differ
   (one of them may have no query or an empty one) are mapped to different local paths. *)
C8_QueriesMapApart ==
    (mapPc = "done" /\ DifferOnlyInQuery) => p1.local # p2.local

\* Both URLs have a query, and the two queries have the same 8-digit SHA-1 prefix.
SameFingerprint ==
    /\ urlparse(u1).query # Empty
    /\ urlparse(u2).query # Empty
    /\ sha1_hex8(urlparse(u1).query) = sha1_hex8(urlparse(u2).query)

(* C8, amended: two URLs with the same scheme, host and path whose query strings differ
   are mapped to different local paths, unless both queries are non-empty and the first
   8 hex digits of their SHA-1 digests are the same. *)
C8_QueriesMapApartUnlessSameFingerprint ==
    (mapPc = "done" /\ DifferOnlyInQuery /\ ~SameFingerprint) => p1.local # p2.local

\* Both URLs mapped: one with a query and one without on a path with an extension, and
\* the local paths differ.
C8_Witness ==
    /\ mapPc = "done"
    /\ DifferOnlyInQuery
    /\ urlparse(u1).query = <<"x">>
    /\ urlparse(u2).query = Empty
    /\ urlparse(u1).path = <<"/", "a", ".", "j", "s">>
    /\ p1.local # p2.local

(***************************************************************************)
(* The pipeline of main, run after run on one output root (SpecMain)       *)
(*                                                                         *)
(* The main thread collects the URLs, walks them (skip or submit), gathers *)
(* the futures as they complete, rewrites the manifest and checks the      *)
(* rewritten paths.  Each submitted URL is a download_one call on a pool   *)
(* thread, interleaved with the main thread and with the other calls.  A   *)
(* file is [exists, size]; every chunk has size 1.                         *)
(***************************************************************************)
MaxChunks == 2
max_retries == 3
Concurrency == 8
BackoffBaseMs == 500
OK == 200

U_DIR == HTTP \o <<"h", "/", "a", "/">>
U_INDEX == HTTP \o <<"h", "/", "a", "/">> \o INDEX_HTML

\* A manifest whose two URLs have one local path
PoolManifests == {
    Dict(<<KV("links", List(<<Dict(<<KV("href", Str(U_DIR))>>)>>)),
           KV("resources", List(<<Dict(<<KV("href", Str(U_INDEX))>>)>>))>>) }

\* The manifests main is run on: a URL beside a blocked one, and a URL with a query
\* outside the recognized fields beside a null.
MainManifests == {
    Dict(<<KV("links", List(<<Dict(<<KV("href", Str(G1))>>)>>)),
           KV("resources", List(<<Dict(<<KV("href", Str(B1))>>)>>))>>),
    Dict(<<KV("links", List(<<None>>)), KV("cover", Str(G2))>>) }

\* The local paths the runs can touch
FsPaths == {url_to_local_path(u).local : u \in {U_DIR, U_INDEX, G1, G2}}

NoFile == [exists |-> FALSE, size |-> 0]

\* The statuses a server answers with other than 200
FailStatuses == {404, 500}

\* The RequestExceptions a request raises, by the response they carry: none (a
\* connection error, a timeout), or a redirect (TooManyRedirects).
ExcKinds == {[response |-> None], [response |-> Num(302)]}

\* The RequestException iter_content raises while the body is streamed
StreamExc == [response |-> None]

\* A download_one call: where it is, its locals, and what it did
NoTask == [pc |-> "none", tries |-> 0, total |-> 0, opened |-> FALSE, sleeps |-> << >>,
           last_exc |-> None, result |-> None]

\* A download_one that took a bad status for a fault to retry
on_bad_status_retried(t, status) ==
    [t EXCEPT !.pc = "sleep", !.last_exc = [response |-> None]]

\* "return False, status, 0" for a response whose status is not 200
on_bad_status(t, status) ==
    [t EXCEPT !.pc = "returned",
              !.result = [ok |-> FALSE, status |-> Num(status), bytes |-> 0]]

\* getattr(last_exc, "response", None) and last_exc.response.status_code or None:
\* a Response is true when its status is below 400
exc_status(e) ==
    IF e.response # None /\ e.response.v < 400 /\ e.response.v # 0 THEN e.response ELSE None

\* An except clause whose sleep does not grow with the attempt
after_backoff_flat(t) ==
    IF t.tries < max_retries
    THEN [t EXCEPT !.pc = "try", !.sleeps = Append(@, BackoffBaseMs)]
    ELSE [t EXCEPT !.pc = "returned", !.sleeps = Append(@, BackoffBaseMs),
                   !.result = [ok |-> FALSE, status |-> exc_status(t.last_exc), bytes |-> 0]]

\* The except clause: sleep 0.5 * tries, then the loop test; past max_retries the call
\* returns its failure
after_backoff(t) ==
    IF t.tries < max_retries
    THEN [t EXCEPT !.pc = "try", !.sleeps = Append(@, BackoffBaseMs * t.tries)]
    ELSE [t EXCEPT !.pc = "returned", !.sleeps = Append(@, BackoffBaseMs * t.tries),
                   !.result = [ok |-> FALSE, status |-> exc_status(t.last_exc), bytes |-> 0]]

\* A file after a chunk is written at offset `total` by a writer that opened it
write_chunk(f, total) == [exists |-> TRUE, size |-> IF f.size > total + 1 THEN f.size ELSE total + 1]

LocalOf(u) == url_to_local_path(u).local

\* The number of download_one calls running on pool threads
Running == Cardinality({u \in urls : task[u].pc \in {"get", "stream", "sleep"}
                                     \/ (task[u].pc = "try" /\ task[u].tries > 0)})

InDownload == mainPc \in {"submit", "skip_add", "as_completed"}

\* Where download_urls is once its first loop has no URL left and, then, once every
\* future has been gathered
PcAfter(td, futs, res) ==
    IF td # {} THEN "submit"
    ELSE IF \E u \in futs : res[u] = None THEN "as_completed"
    ELSE "downloaded"

\* A download_urls that does not look at skip_existing
skips_never(u) == FALSE

\* skip_existing and local_path.exists()
skips(u) == skip_existing /\ fs[LocalOf(u)].exists

\* The record download_urls keeps for a URL
outcome(u, ok, status, bytes) ==
    [ok |-> ok, status |-> status, bytes |-> bytes, local |-> LocalOf(u),
     href |-> url_to_local_path(u).href]

\* main up to the download: the manifest is loaded and its URLs collected
MainCollect ==
    /\ mainPc = "start"
    /\ urls' = collect_urls_from_manifest(manifest)
    /\ todo' = urls'
    /\ task' = [u \in urls' |-> NoTask]
    /\ results' = [u \in urls' |-> None]
    /\ fs0' = fs
    /\ mainPc' = PcAfter(urls', {}, results')
    /\ UNCHANGED <<manifest, skip_existing, fs, future_to_url, total_bytes, failed,
                   skipUrl, rewritten, missing, hist, succeeded, mapVars, rwVars>>

\* download_urls, first loop: the path exists and is skipped; the outcome takes the
\* file's size
SkipRecord(u) ==
    /\ mainPc = "submit"
    /\ u \in todo
    /\ skips(u)
    /\ results' = [results EXCEPT ![u] = outcome(u, TRUE, Num(OK), fs[LocalOf(u)].size)]
    /\ skipUrl' = Str(u)
    /\ mainPc' = "skip_add"
    /\ UNCHANGED <<manifest, skip_existing, urls, todo, fs, task, future_to_url,
                   total_bytes, failed, rewritten, missing, hist, succeeded, fs0,
                   mapVars, rwVars>>

\* download_urls, first loop: total_bytes takes the file's size, read again
SkipAdd ==
    /\ mainPc = "skip_add"
    /\ total_bytes' = total_bytes + fs[LocalOf(skipUrl.v)].size
    /\ todo' = todo \ {skipUrl.v}
    /\ skipUrl' = None
    /\ mainPc' = PcAfter(todo', future_to_url, results)
    /\ UNCHANGED <<manifest, skip_existing, urls, fs, task, future_to_url, results,
                   failed, rewritten, missing, hist, succeeded, fs0, mapVars, rwVars>>

\* download_urls, first loop: ex.submit(download_one, session, url, local_path)
SubmitUrl(u) ==
    /\ mainPc = "submit"
    /\ u \in todo
    /\ ~skips(u)
    /\ task' = [task EXCEPT ![u] = [@ EXCEPT !.pc = "try"]]
    /\ future_to_url' = future_to_url \cup {u}
    /\ todo' = todo \ {u}
    /\ mainPc' = PcAfter(todo', future_to_url', results)
    /\ UNCHANGED <<manifest, skip_existing, urls, fs, results, total_bytes, failed,
                   skipUrl, rewritten, missing, hist, succeeded, fs0, mapVars, rwVars>>

\* download_one, loop head to the request: tries += 1, mkdir, session.get
Attempt(u) ==
    /\ InDownload
    /\ task[u].pc = "try"
    /\ task[u].tries > 0 \/ Running < Concurrency
    /\ task' = [task EXCEPT ![u] = [@ EXCEPT !.pc = "get", !.tries = @ + 1]]
    /\ UNCHANGED <<manifest, skip_existing, mainPc, urls, todo, fs, future_to_url,
                   results, total_bytes, failed, skipUrl, rewritten, missing, hist,
                   succeeded, fs0, mapVars, rwVars>>

\* download_one: the response has a status other than 200
RespBadStatus(u) ==
    /\ InDownload
    /\ task[u].pc = "get"
    /\ \E status \in FailStatuses : task' = [task EXCEPT ![u] = on_bad_status(@, status)]
    /\ UNCHANGED <<manifest, skip_existing, mainPc, urls, todo, fs, future_to_url,
                   results, total_bytes, failed, skipUrl, rewritten, missing, hist,
                   succeeded, fs0, mapVars, rwVars>>

\* download_one: the response has status 200 and open(local_path, "wb") creates or
\* truncates the file
RespOk(u) ==
    /\ InDownload
    /\ task[u].pc = "get"
    /\ task' = [task EXCEPT ![u] = [@ EXCEPT !.pc = "stream", !.total = 0, !.opened = TRUE]]
    /\ fs' = [fs EXCEPT ![LocalOf(u)] = [exists |-> TRUE, size |-> 0]]
    /\ UNCHANGED <<manifest, skip_existing, mainPc, urls, todo, future_to_url,
                   results, total_bytes, failed, skipUrl, rewritten, missing, hist,
                   succeeded, fs0, mapVars, rwVars>>

\* download_one: session.get raises a RequestException
RespFault(u) ==
    /\ InDownload
    /\ task[u].pc = "get"
    /\ \E e \in ExcKinds :
           task' = [task EXCEPT ![u] = [@ EXCEPT !.pc = "sleep", !.last_exc = e]]
    /\ UNCHANGED <<manifest, skip_existing, mainPc, urls, todo, fs, future_to_url,
                   results, total_bytes, failed, skipUrl, rewritten, missing, hist,
                   succeeded, fs0, mapVars, rwVars>>

\* download_one: mkdir or open raises an OSError, which download_one does not catch
TaskRaises(u) ==
    /\ InDownload
    /\ task[u].pc = "get"
    /\ task' = [task EXCEPT ![u] = [@ EXCEPT !.pc = "raised"]]
    /\ UNCHANGED <<manifest, skip_existing, mainPc, urls, todo, fs, future_to_url,
                   results, total_bytes, failed, skipUrl, rewritten, missing, hist,
                   succeeded, fs0, mapVars, rwVars>>

\* download_one: one chunk of the body is written to the file
WriteChunk(u) ==
    /\ InDownload
    /\ task[u].pc = "stream"
    /\ task[u].total < MaxChunks
    /\ fs' = [fs EXCEPT ![LocalOf(u)] = write_chunk(@, task[u].total)]
    /\ task' = [task EXCEPT ![u] = [@ EXCEPT !.total = @ + 1]]
    /\ UNCHANGED <<manifest, skip_existing, mainPc, urls, todo, future_to_url,
                   results, total_bytes, failed, skipUrl, rewritten, missing, hist,
                   succeeded, fs0, mapVars, rwVars>>

\* download_one: the body ends, "return True, status, total"
StreamEnd(u) ==
    /\ InDownload
    /\ task[u].pc = "stream"
    /\ task' = [task EXCEPT ![u] = [@ EXCEPT !.pc = "returned",
                    !.result = [ok |-> TRUE, status |-> Num(OK), bytes |-> task[u].total]]]
    /\ succeeded' = succeeded \cup {LocalOf(u)}
    /\ UNCHANGED <<manifest, skip_existing, mainPc, urls, todo, fs, future_to_url,
                   results, total_bytes, failed, skipUrl, rewritten, missing, hist, fs0,
                   mapVars, rwVars>>

\* download_one: iter_content raises a RequestException; the file stays as written
StreamFault(u) ==
    /\ InDownload
    /\ task[u].pc = "stream"
    /\ task' = [task EXCEPT ![u] = [@ EXCEPT !.pc = "sleep", !.last_exc = StreamExc]]
    /\ UNCHANGED <<manifest, skip_existing, mainPc, urls, todo, fs, future_to_url,
                   results, total_bytes, failed, skipUrl, rewritten, missing, hist,
                   succeeded, fs0, mapVars, rwVars>>

\* download_one: the except clause and the loop test
Backoff(u) ==
    /\ InDownload
    /\ task[u].pc = "sleep"
    /\ task' = [task EXCEPT ![u] = after_backoff(@)]
    /\ UNCHANGED <<manifest, skip_existing, mainPc, urls, todo, fs, future_to_url,
                   results, total_bytes, failed, skipUrl, rewritten, missing, hist,
                   succeeded, fs0, mapVars, rwVars>>

\* What the as_completed loop makes of a finished future: fut.result(), or
\* (False, None, 0) when it raises
gathered(t) ==
    IF t.pc = "raised" THEN [ok |-> FALSE, status |-> None, bytes |-> 0] ELSE t.result

\* download_urls, second loop: one finished future is gathered
Gather(u) ==
    /\ mainPc = "as_completed"
    /\ u \in future_to_url
    /\ results[u] = None
    /\ task[u].pc \in {"returned", "raised"}
    /\ results' = [results EXCEPT ![u] = outcome(u, gathered(task[u]).ok,
                                                  gathered(task[u]).status,
                                                  gathered(task[u]).bytes)]
    /\ total_bytes' = IF gathered(task[u]).ok THEN total_bytes + gathered(task[u]).bytes
                      ELSE total_bytes
    /\ failed' = IF gathered(task[u]).ok THEN failed ELSE Append(failed, u)
    /\ mainPc' = PcAfter(todo, future_to_url, results')
    /\ UNCHANGED <<manifest, skip_existing, urls, todo, fs, task, future_to_url,
                   skipUrl, rewritten, missing, hist, succeeded, fs0, mapVars, rwVars>>

\* The local paths of changed that do not exist
missing_of(ch, files) ==
    SelectSeq([i \in 1..Len(ch) |-> ch[i].local], LAMBDA l : ~files[l].exists)

\* main after the download: the manifest is rewritten and saved, and the rewritten
\* paths are checked
MainRewrite ==
    /\ mainPc = "downloaded"
    /\ rewritten' = rewrite_manifest(manifest).m
    /\ missing' = missing_of(rewrite_manifest(manifest).changed, fs)
    /\ hist' = hist \cup {rewritten'}
    /\ mainPc' = "done"
    /\ UNCHANGED <<manifest, skip_existing, urls, todo, fs, task, future_to_url,
                   results, total_bytes, failed, skipUrl, succeeded, fs0, mapVars, rwVars>>

\* What a new process finds: the manifest file and the output root; nothing of the
\* process before it
Restart ==
    /\ mainPc' = "start"
    /\ urls' = {} /\ todo' = {} /\ task' = << >> /\ future_to_url' = {}
    /\ results' = << >> /\ total_bytes' = 0 /\ failed' = << >> /\ skipUrl' = None
    /\ rewritten' = None /\ missing' = << >> /\ fs0' = << >>
    /\ UNCHANGED <<manifest, skip_existing, fs, hist, succeeded, mapVars, rwVars>>

\* The user stops the run while it downloads (the process ends where it is, its files
\* stay as they are) and runs the pipeline again
Stop == InDownload /\ Restart

\* The pipeline is run again, on the same manifest and the same output root, after a
\* run that ended
NextRun == mainPc = "done" /\ Restart

MainNext ==
    \/ MainCollect
    \/ \E u \in urls : SkipRecord(u)
    \/ SkipAdd
    \/ \E u \in urls : SubmitUrl(u)
    \/ \E u \in urls : Attempt(u)
    \/ \E u \in urls : RespBadStatus(u)
    \/ \E u \in urls : RespOk(u)
    \/ \E u \in urls : RespFault(u)
    \/ \E u \in urls : TaskRaises(u)
    \/ \E u \in urls : WriteChunk(u)
    \/ \E u \in urls : StreamEnd(u)
    \/ \E u \in urls : StreamFault(u)
    \/ \E u \in urls : Backoff(u)
    \/ \E u \in urls : Gather(u)
    \/ MainRewrite
    \/ Stop
    \/ NextRun

\* A manifest of the pool, an empty output root, the first run about to start; the
\* other parts idle.
InitMain ==
    /\ manifest \in MainManifests /\ skip_existing \in BOOLEAN
    /\ mainPc = "start" /\ urls = {} /\ todo = {} /\ fs = [l \in FsPaths |-> NoFile]
    /\ task = << >> /\ future_to_url = {} /\ results = << >> /\ total_bytes = 0
    /\ failed = << >> /\ skipUrl = None /\ rewritten = None /\ missing = << >>
    /\ hist = {} /\ succeeded = {} /\ fs0 = << >>
    /\ u1 = None /\ u2 = None /\ p1 = None /\ p2 = None /\ mapPc = "idle"
    /\ rwIn = None /\ rwM = None /\ changed = << >> /\ removed = << >> /\ rwPc = "idle"

SpecMain == InitMain /\ [][MainNext]_vars

\* One run up to the return of download_urls
PoolNext ==
    \/ MainCollect
    \/ \E u \in urls : SkipRecord(u)
    \/ SkipAdd
    \/ \E u \in urls : SubmitUrl(u)
    \/ \E u \in urls : Attempt(u)
    \/ \E u \in urls : RespBadStatus(u)
    \/ \E u \in urls : RespOk(u)
    \/ \E u \in urls : RespFault(u)
    \/ \E u \in urls : TaskRaises(u)
    \/ \E u \in urls : WriteChunk(u)
    \/ \E u \in urls : StreamEnd(u)
    \/ \E u \in urls : StreamFault(u)
    \/ \E u \in urls : Backoff(u)
    \/ \E u \in urls : Gather(u)

\* One download_urls call on a manifest whose URLs share a local path, on an empty
\* output root: two download_one calls on one file.
InitPool ==
    /\ manifest \in PoolManifests /\ skip_existing \in BOOLEAN
    /\ mainPc = "start" /\ urls = {} /\ todo = {} /\ fs = [l \in FsPaths |-> NoFile]
    /\ task = << >> /\ future_to_url = {} /\ results = << >> /\ total_bytes = 0
    /\ failed = << >> /\ skipUrl = None /\ rewritten = None /\ missing = << >>
    /\ hist = {} /\ succeeded = {} /\ fs0 = << >>
    /\ u1 = None /\ u2 = None /\ p1 = None /\ p2 = None /\ mapPc = "idle"
    /\ rwIn = None /\ rwM = None /\ changed = << >> /\ removed = << >> /\ rwPc = "idle"

SpecPool == InitPool /\ [][PoolNext]_vars

(***************************************************************************)
(* Claims on the download (SpecMain, SpecPool)                             *)
(***************************************************************************)
Returned(u) == task[u].pc = "returned"

\* The call of u went through max_retries except clauses: every attempt raised
Exhausted(u) == Returned(u) /\ Len(task[u].sleeps) = max_retries

RECURSIVE SumOkBytes(_)
SumOkBytes(S) ==
    IF S = {} THEN 0
    ELSE LET u == CHOOSE x \in S : TRUE
         IN (IF results[u].ok THEN results[u].bytes ELSE 0) + SumOkBytes(S \ {u})

\* C3: no two download_one calls submitted in one run open the same local path:
\* distinct URLs of the discovered set have distinct local paths.
C3_NoTwoTasksOnOnePath ==
    \A a \in future_to_url : \A b \in future_to_url :
        (a # b /\ task[a].opened /\ task[b].opened) => LocalOf(a) # LocalOf(b)

\* C4: a response with a status other than 200 on the first attempt ends the call at
\* once with (ok=false, status=that status, bytes=0), without a sleep, without a file
\* opened or changed, and a call that has returned issues no further request.
C4_BadStatusEndsTheFetch ==
    [][\A u \in urls :
          /\ (task[u].tries = 1 /\ RespBadStatus(u))
                => /\ task'[u].pc = "returned"
                   /\ task'[u].tries = 1
                   /\ ~task'[u].result.ok
                   /\ task'[u].result.status.t = "num"
                   /\ task'[u].result.status.v \in FailStatuses
                   /\ task'[u].result.bytes = 0
                   /\ task'[u].sleeps = << >>
                   /\ ~task'[u].opened
                   /\ fs' = fs
          /\ (Returned(u) /\ u \in urls') => task'[u] = task[u]]_vars

C4_Witness ==
    \E u \in urls : /\ Returned(u) /\ task[u].tries = 1
                    /\ task[u].result = [ok |-> FALSE, status |-> Num(404), bytes |-> 0]
                    /\ ~fs[LocalOf(u)].exists

\* C5 as stated: when every attempt raises a RequestException the call makes
\* max_retries attempts and returns (ok=false, status=null, bytes=0).
C5_ExhaustedHasNullStatus ==
    \A u \in urls :
        Exhausted(u) => /\ task[u].tries = max_retries
                        /\ task[u].result = [ok |-> FALSE, status |-> None, bytes |-> 0]

\* C5 amended: a call makes at most max_retries attempts; the sleep after the n-th
\* fault is n times the base delay; when every attempt raised, the call made
\* max_retries attempts and returns ok=false, bytes=0 and a null status unless the
\* last exception carries a response, whose status is then returned; a call that
\* returns success after k faults made k+1 attempts.
C5_RetriesBackoffAndOutcome ==
    \A u \in urls :
        /\ task[u].tries <= max_retries
        /\ task[u].sleeps = [n \in 1..Len(task[u].sleeps) |-> n * BackoffBaseMs]
        /\ \A n \in 1..(Len(task[u].sleeps) - 1) : task[u].sleeps[n] < task[u].sleeps[n + 1]
        /\ Exhausted(u)
              => /\ task[u].tries = max_retries
                 /\ ~task[u].result.ok
                 /\ task[u].result.bytes = 0
                 /\ task[u].result.status = task[u].last_exc.response
        /\ (Returned(u) /\ task[u].result.ok)
              => /\ task[u].tries = Len(task[u].sleeps) + 1
                 /\ task[u].result.status = Num(OK)

C5_Witness ==
    \E u \in urls : /\ Exhausted(u)
                    /\ task[u].result = [ok |-> FALSE, status |-> None, bytes |-> 0]
                    /\ task[u].sleeps = <<500, 1000, 1500>>

\* Every discovered URL's local path existed when the run began
AllExisted == urls # {} /\ \A u \in urls : fs0[LocalOf(u)].exists

\* C6: a run with skip_existing on an output root where every discovered URL's local
\* path exists submits no download and makes no request, records a success for every
\* URL, and rewrites the manifest to what every completed run before it produced.
C6_RerunIsSkippedAndSame ==
    (mainPc \in {"downloaded", "done"} /\ skip_existing /\ AllExisted)
        => /\ future_to_url = {}
           /\ \A u \in urls : task[u] = NoTask
           /\ \A u \in urls : results[u] # None /\ results[u].ok
           /\ failed = << >>
           /\ mainPc = "done" => (hist = {rewritten} /\ missing = << >>)

C6_Witness ==
    /\ mainPc = "done" /\ skip_existing /\ AllExisted
    /\ succeeded # {} /\ future_to_url = {} /\ hist = {rewritten}

\* C9: when download_urls returns, results holds one outcome per URL, total_bytes is
\* the sum of the bytes of the ok outcomes, and failed holds the URLs whose outcome
\* is not ok, each once.
C9_AggregatesMatchOutcomes ==
    mainPc \in {"downloaded", "done"}
        => /\ \A u \in urls : results[u] # None
           /\ total_bytes = SumOkBytes(urls)
           /\ {failed[i] : i \in 1..Len(failed)} = {u \in urls : ~results[u].ok}
           /\ Len(failed) = Cardinality({u \in urls : ~results[u].ok})

\* C10: a URL is recorded as a skipped success only if a fetch to its local path
\* ended with success before.
C10_SkippedOnlyAfterSuccess ==
    mainPc = "skip_add" => LocalOf(skipUrl.v) \in succeeded

====
